---- MODULE Spec2Model ----
(***************************************************************************)
(* Matching-and-selection engine of the wilkins package:                   *)
(*   wilkins/matching.py     the matching tiers over the submission rows   *)
(*   wilkins/project.py      Project.process_data, which sequences them    *)
(*   wilkins/utils/vision.py remove_all_duplicates, filter_media,          *)
(*                           filter_media_bus                              *)
(*                                                                         *)
(* A Python str is a sequence of one-character strings; list and page     *)
(* indices are 0-based as in the source, TLA+ sequence positions 1-based.  *)
(***************************************************************************)
EXTENDS Integers, Sequences, FiniteSets, TLC

VARIABLES
    pc,            \* the next statement of Project.process_data to run
    submission,    \* self.submissions: the rows of the DataFrame, in order
    pdf_content,   \* pdf_data["content"]: one text per page
    filenames,     \* image_data["content"]: the image file names
    unit_number,   \* process_data's unit_number argument (None in batch mode)
    scores,        \* the score vectors match_with_pdf_content logged, per row
    vpc,           \* position in the image-selection run (vision.py)
    page_images,   \* pdf_data["images"]: per page, the image blobs
    dups_removed,  \* filter_media's dups_removed
    media_images,  \* what filter_media returned, or that it raised
    bus_images,    \* what filter_media_bus returned, or that it raised
    submission_images,  \* process_data's submission_images, or that the loop raised
    second_run     \* the row set after each tier call of a second run of the tiers

vars == <<pc, submission, pdf_content, filenames, unit_number, scores,
          vpc, page_images, dups_removed, media_images, bus_images,
          submission_images, second_run>>

tierVars == <<pc, submission, pdf_content, filenames, unit_number, scores,
              submission_images, second_run>>
selectVars == <<submission_images, second_run>>
visionVars == <<vpc, page_images, dups_removed, media_images, bus_images>>

\* Python's None, where a cell value is expected
NoneV == [k |-> "none", s |-> <<>>, i |-> 0, f |-> 0]

----------------------------------------------------------------------------
(* Bounds of the model *)

MaxRows == 2
MaxPages == 2
MaxFiles == 2
MaxGroups == 2
MaxSlots == 3
MaxTables == 2
MaxUrls == 2

----------------------------------------------------------------------------
(* Python str operations *)

Max(S) == CHOOSE x \in S : \A y \in S : y <= x
Min(S) == CHOOSE x \in S : \A y \in S : x <= y

\* t in s
Contains(s, t) ==
    \E i \in 0..(Len(s) - Len(t)) : SubSeq(s, i + 1, i + Len(t)) = t

LowerChar(c) ==
    CASE c = "A" -> "a" [] c = "B" -> "b" [] c = "C" -> "c" [] c = "D" -> "d"
      [] c = "E" -> "e" [] c = "K" -> "k" [] c = "N" -> "n" [] c = "P" -> "p"
      [] c = "J" -> "j" [] c = "G" -> "g" [] c = "S" -> "s" [] c = "T" -> "t" [] c = "U" -> "u" [] c = "W" -> "w"
      [] OTHER -> c

\* s.lower()
Lower(s) == [i \in 1..Len(s) |-> LowerChar(s[i])]

Whitespace == {" ", "\n"}

\* s.strip()
Strip(s) ==
    LET keep == {i \in 1..Len(s) : s[i] \notin Whitespace}
    IN  IF keep = {} THEN <<>> ELSE SubSeq(s, Min(keep), Max(keep))

\* s.rstrip(chars): drops every trailing character that is in chars
RStrip(s, chars) ==
    LET keep == {i \in 1..Len(s) : s[i] \notin chars}
    IN  IF keep = {} THEN <<>> ELSE SubSeq(s, 1, Max(keep))

DigitChars == <<"0", "1", "2", "3", "4", "5", "6", "7", "8", "9">>

RECURSIVE Digits(_)
\* str(n) for an int n >= 0
Digits(n) ==
    IF n < 10 THEN <<DigitChars[n + 1]>>
    ELSE Digits(n \div 10) \o <<DigitChars[(n % 10) + 1]>>

(* A cell of the DataFrame: a str, an int, a float with one decimal, or NaN
   (an empty spreadsheet cell). *)
StrV(s) == [k |-> "str", s |-> s, i |-> 0, f |-> 0]
IntV(n) == [k |-> "int", s |-> <<>>, i |-> n, f |-> 0]
FloatV(n, d) == [k |-> "float", s |-> <<>>, i |-> n, f |-> d]
NaN == [k |-> "nan", s |-> <<>>, i |-> 0, f |-> 0]

\* str(value)
Str(v) ==
    CASE v.k = "str" -> v.s
      [] v.k = "int" -> Digits(v.i)
      [] v.k = "float" -> Digits(v.i) \o <<".">> \o Digits(v.f)
      [] OTHER -> <<"n", "a", "n">>

\* pandas ==: NaN equals nothing, a str never equals a number
CellEq(a, b) == a.k # "nan" /\ b.k # "nan" /\ a = b

RECURSIVE ReSubBrackets(_)
\* re.sub(r"\(.*?\)", "", text): leftmost matches, each "(" up to the nearest
\* ")" with no line break in between
ReSubBrackets(text) ==
    IF text = <<>> THEN <<>>
    ELSE LET close == {j \in 2..Len(text) : text[j] = ")"}
             j == Min(close)
         IN  IF Head(text) = "(" /\ close # {}
                /\ \A m \in 2..(j - 1) : text[m] # "\n"
             THEN ReSubBrackets(SubSeq(text, j + 1, Len(text)))
             ELSE <<Head(text)>> \o ReSubBrackets(Tail(text))

remove_brackets(text) == Strip(ReSubBrackets(text))

----------------------------------------------------------------------------
(* wilkins/matching.py *)

\* The row after _find_max_matching_pdf has run on it: "Unit #" is replaced,
\* on the row copy iterrows() handed out, by its bracket-free string
find_max_matching_pdf_row(row) ==
    [row EXCEPT !.Unit = StrV(remove_brackets(Str(row.Unit)))]

\* mutant: the unit number is compared with its parentheticals left in
find_max_matching_pdf_keeps_brackets(row, page_content) ==
    LET values == <<row.Unit, row.Latitude, row.Longitude, row.Size>>
    IN  Cardinality({c \in 1..4 : Contains(page_content, Str(values[c]))})

\* _find_max_matching_pdf's return value
find_max_matching_pdf(row, page_content) ==
    LET r == find_max_matching_pdf_row(row)
        values == <<r.Unit, r.Latitude, r.Longitude, r.Size>>
    IN  Cardinality({c \in 1..4 : Contains(page_content, Str(values[c]))})

RECURSIVE RowScores(_, _, _)
\* the scores array of one row: page k is scored on the row as the calls for
\* the pages before it left it
RowScores(row, pages, k) ==
    IF k > Len(pages) THEN <<>>
    ELSE <<find_max_matching_pdf(row, pages[k])>>
         \o RowScores(find_max_matching_pdf_row(row), pages, k + 1)

\* np.any(scores)
NpAny(sc) == \E k \in 1..Len(sc) : sc[k] # 0

\* mutant: the last position of the maximum
ArgMaxLast(sc) ==
    Max({k \in 1..Len(sc) : \A m \in 1..Len(sc) : sc[m] <= sc[k]})

\* np.argmax(scores): the first position of the maximum (1-based here)
ArgMax(sc) ==
    Min({k \in 1..Len(sc) : \A m \in 1..Len(sc) : sc[m] <= sc[k]})

\* match_with_pdf_content, the unit_number branch
\* mutant: the position of the row among the rows in place of its label
ForcedUnitMatchByPosition(sub, un) ==
    IF un = NoneV THEN sub
    ELSE [i \in DOMAIN sub |->
            IF CellEq(sub[i].Unit, un)
            THEN [sub[i] EXCEPT !.image_matched = TRUE,
                                !.match_image_index = i - 1]
            ELSE sub[i]]

ForcedUnitMatch(sub, un) ==
    IF un = NoneV THEN sub
    ELSE [i \in DOMAIN sub |->
            IF CellEq(sub[i].Unit, un)
            THEN [sub[i] EXCEPT !.image_matched = TRUE,
                                !.match_image_index = sub[i].index]
            ELSE sub[i]]

\* mutant: no skip of a matched row, and the outcome of the scoring is
\* written whether or not a page scored
PdfMatchRowRescored(row, pages) ==
    LET sc == RowScores(row, pages, 1)
    IN  IF NpAny(sc) /\ sc[ArgMax(sc)] > 0
        THEN [row EXCEPT !.image_matched = TRUE,
                         !.match_image_index = ArgMax(sc) - 1]
        ELSE [row EXCEPT !.image_matched = FALSE, !.match_image_index = -1]

\* match_with_pdf_content, one turn of the loop over the rows
PdfMatchRow(row, pages) ==
    IF row.image_matched THEN row
    ELSE LET sc == RowScores(row, pages, 1)
         IN  IF NpAny(sc) /\ sc[ArgMax(sc)] > 0
             THEN [row EXCEPT !.image_matched = TRUE,
                              !.match_image_index = ArgMax(sc) - 1]
             ELSE row

match_with_pdf_content(sub, pages, un) ==
    LET forced == ForcedUnitMatch(sub, un)
    IN  [i \in DOMAIN sub |-> PdfMatchRow(forced[i], pages)]

\* the score vectors the loop logs (line 75): none for a row it skips
LoggedScores(sub, pages, un) ==
    LET forced == ForcedUnitMatch(sub, un)
    IN  [i \in DOMAIN sub |->
            IF forced[i].image_matched
            THEN [logged |-> FALSE, values |-> <<>>]
            ELSE [logged |-> TRUE, values |-> RowScores(forced[i], pages, 1)]]

\* mutant: the filename is compared as it is spelt
FileMatchesCaseSensitive(row, filename) ==
    LET unit == Lower(Strip(Str(row.Unit)))
        media_type == Lower(Strip(Str(row.MediaType)))
        cleaned_filename == Strip(filename)
    IN  Contains(cleaned_filename, unit) \/ Contains(cleaned_filename, media_type)

\* the test of line 96 on one filename
FileMatches(row, filename) ==
    LET unit == Lower(Strip(Str(row.Unit)))
        media_type == Lower(Strip(Str(row.MediaType)))
        cleaned_filename == Lower(Strip(filename))
    IN  Contains(cleaned_filename, unit) \/ Contains(cleaned_filename, media_type)

\* mutant: a filename match takes the row over from its page match
FileMatchRowClearsPageIndex(row, files) ==
    LET hits == {k \in 1..Len(files) : FileMatches(row, files[k])}
    IN  IF hits = {} THEN row
        ELSE [row EXCEPT !.image_matched = TRUE,
                         !.match_image_index = -1,
                         !.match_image_file_index = Min(hits) - 1]

\* match_with_image_files, one turn of the loop over the rows
FileMatchRow(row, files) ==
    LET hits == {k \in 1..Len(files) : FileMatches(row, files[k])}
    IN  IF hits = {} THEN row
        ELSE [row EXCEPT !.image_matched = TRUE,
                         !.match_image_file_index = Min(hits) - 1]

RECURSIVE FileMatchConsuming(_, _, _, _)
\* mutant: lines 93-94 in force, a filename serves one row only
FileMatchConsuming(sub, files, i, consumed) ==
    IF i > Len(sub) THEN <<>>
    ELSE LET hits == {k \in 1..Len(files) :
                        k \notin consumed /\ FileMatches(sub[i], files[k])}
         IN  IF hits = {}
             THEN <<sub[i]>> \o FileMatchConsuming(sub, files, i + 1, consumed)
             ELSE <<[sub[i] EXCEPT !.image_matched = TRUE,
                                   !.match_image_file_index = Min(hits) - 1]>>
                  \o FileMatchConsuming(sub, files, i + 1,
                                         consumed \cup {Min(hits)})

match_with_image_files_consuming(sub, files) ==
    FileMatchConsuming(sub, files, 1, {})

match_with_image_files(sub, files) ==
    [i \in DOMAIN sub |-> FileMatchRow(sub[i], files)]

RECURSIVE ReSplit(_)
\* re.split(r"[&@]", s)
ReSplit(s) ==
    LET seps == {j \in 1..Len(s) : s[j] \in {"&", "@"}}
    IN  IF seps = {} THEN <<s>>
        ELSE <<SubSeq(s, 1, Min(seps) - 1)>>
             \o ReSplit(SubSeq(s, Min(seps) + 1, Len(s)))

\* the three-way test of lines 113-117 and 127-131
PluralTolerantIn(token, content_normalized) ==
    \/ Contains(content_normalized, token)
    \/ Contains(content_normalized, RStrip(token, {"s"}))
    \/ Contains(content_normalized, RStrip(token, {"e", "s"}))

\* whether the page loop of match_mediatype_with_pdf_content stops at this page
MediaTypePageMatches(mediatype_normalized, content) ==
    LET content_normalized == Lower(content)
        parts == ReSplit(mediatype_normalized)
    IN  \/ PluralTolerantIn(mediatype_normalized, content_normalized)
        \/ /\ \E j \in 1..Len(mediatype_normalized) :
                    mediatype_normalized[j] \in {"&", "@"}
           /\ \E p \in 1..Len(parts) :
                    PluralTolerantIn(Strip(parts[p]), content_normalized)

\* "bus" in row["Media Type"].lower()
IsBusMediaType(row) == Contains(Lower(row.MediaType.s), <<"b", "u", "s">>)

\* match_mediatype_with_pdf_content, the page loop for one row
MediaTypeMatchRow(row, pages) ==
    LET hits == {k \in 1..Len(pages) :
                    MediaTypePageMatches(Lower(row.MediaType.s), pages[k])}
    IN  IF hits = {} THEN row
        ELSE [row EXCEPT !.image_matched = TRUE,
                         !.match_image_index = Min(hits) - 1]

\* the rows of vendor_df the loop of match_mediatype_with_pdf_content reaches:
\* those before the first row whose media type contains "bus" (the break)
RowsBeforeBreak(sub, members) ==
    LET bus == {i \in members : IsBusMediaType(sub[i])}
    IN  IF bus = {} THEN members ELSE {i \in members : i < Min(bus)}

\* match_mediatype_with_pdf_content on vendor_df (the rows of sub at the
\* positions in members), followed by submission.update(vendor_df)
match_mediatype_with_pdf_content(sub, members, pages) ==
    [i \in DOMAIN sub |->
        IF i \in RowsBeforeBreak(sub, members)
        THEN MediaTypeMatchRow(sub[i], pages)
        ELSE sub[i]]

VendorsOf(sub) == {sub[i].Vendor : i \in DOMAIN sub}
VendorRows(sub, vendor) == {i \in DOMAIN sub : sub[i].Vendor = vendor}

\* mutant: any() in place of all()
check_any_value_same_for_each_category(sub, target_value) ==
    [vendor \in VendorsOf(sub) |->
        \E i \in VendorRows(sub, vendor) : sub[i].image_matched = target_value]

\* check_all_values_same_for_each_category(dataframe, "Vendor",
\* "image_matched", target_value)
check_all_values_same_for_each_category(sub, target_value) ==
    [vendor \in VendorsOf(sub) |->
        \A i \in VendorRows(sub, vendor) : sub[i].image_matched = target_value]

\* the vendors match_media_type and match_bus_media go on to process
VendorsToProcess(sub) ==
    {vendor \in VendorsOf(sub) :
        check_all_values_same_for_each_category(sub, FALSE)[vendor]}

RECURSIVE MediaTypeOverVendors(_, _, _)
\* the loop of match_media_type over the vendors still to do
MediaTypeOverVendors(sub, todo, pages) ==
    IF todo = {} THEN sub
    ELSE LET vendor == CHOOSE v \in todo : TRUE
         IN  MediaTypeOverVendors(
                 match_mediatype_with_pdf_content(
                     sub, VendorRows(sub, vendor), pages),
                 todo \ {vendor}, pages)

match_media_type(sub, pages) ==
    MediaTypeOverVendors(sub, VendorsToProcess(sub), pages)

\* mutant: case=True
ContainsBusCaseSensitive(sub, vendor) ==
    \E i \in VendorRows(sub, vendor) :
        sub[i].MediaType.k = "str"
        /\ Contains(sub[i].MediaType.s, <<"b", "u", "s">>)

\* vendor_df["Media Type"].str.contains("bus", case=False, na=False).any()
ContainsBus(sub, vendor) ==
    \E i \in VendorRows(sub, vendor) :
        sub[i].MediaType.k = "str"
        /\ Contains(Lower(sub[i].MediaType.s), <<"b", "u", "s">>)

\* mutant: the flag goes to every vendor with a bus row, matched or not
match_bus_media_any_vendor(sub) ==
    [i \in DOMAIN sub |->
        IF ContainsBus(sub, sub[i].Vendor)
        THEN [sub[i] EXCEPT !.bus_media = 1]
        ELSE sub[i]]

\* mutant: the bus fallback marks the rows it flags as matched
match_bus_media_marks_matched(sub) ==
    [i \in DOMAIN sub |->
        IF sub[i].Vendor \in VendorsToProcess(sub)
           /\ ContainsBus(sub, sub[i].Vendor)
        THEN [sub[i] EXCEPT !.bus_media = 1, !.image_matched = TRUE]
        ELSE sub[i]]

match_bus_media(sub) ==
    [i \in DOMAIN sub |->
        IF sub[i].Vendor \in VendorsToProcess(sub)
           /\ ContainsBus(sub, sub[i].Vendor)
        THEN [sub[i] EXCEPT !.bus_media = 1]
        ELSE sub[i]]

----------------------------------------------------------------------------
(* The inputs: submission rows, page texts, image file names *)

Units ==
    { StrV(<<"5", " ", "(", "N", "o", "r", "t", "h", ")">>),
      IntV(12),
      StrV(<<"A", "1">>),
      StrV(<<"B", "2">>) }

\* per unit: media type, latitude, longitude, size
RowFields(unit) ==
    CASE unit = StrV(<<"5", " ", "(", "N", "o", "r", "t", "h", ")">>) ->
            <<StrV(<<"B", "i", "k", "e", " ", "S", "h", "a", "r", "e", " ", "&",
                     " ", "P", "o", "s", "t", "e", "r">>),
              FloatV(40, 1), StrV(<<"-", "7">>), StrV(<<"9", "x", "3">>)>>
      [] unit = IntV(12) ->
            <<StrV(<<"B", "u", "s", " ", "S", "t", "o", "p">>),
              FloatV(33, 2), StrV(<<"-", "8">>), StrV(<<"4", "x", "4">>)>>
      [] unit = StrV(<<"A", "1">>) ->
            <<StrV(<<"P", "o", "s", "t", "e", "r", "s">>),
              FloatV(33, 2), IntV(8), StrV(<<"4", "x", "4">>)>>
      [] OTHER ->
            <<StrV(<<"B", "U", "S">>),
              FloatV(33, 2), IntV(8), StrV(<<"4", "x", "4">>)>>

Vendors == {"V1", "V2"}

PageTexts ==
    { <<"5", " ", "4", "0", ".", "1">>,
      <<"1", "2", " ", "P", "o", "s", "t", "e", "r">>,
      <<"a", "1", " ", "B", "i", "k", "e", " ", "S", "h", "a", "r", "i", "n", "g">> }

FileNames ==
    { <<"A", "1", " ", "1", "2", ".", "J", "P", "G">>,
      <<"P", "o", "s", "t", "e", "r", "s", ".", "p", "n", "g">> }

\* the unit_number arguments tried: None (batch mode) and one unit
UnitNumbers == {NoneV, IntV(12)}

SeqsUpTo(S, n) == UNION {[1..m -> S] : m \in 0..n}

\* a row as _process_vendor_submissions leaves it (lines 139-149): index is the
\* row's label in the DataFrame's index
NewRow(label, unit, vendor) ==
    [index |-> label, Unit |-> unit, Vendor |-> vendor,
     MediaType |-> RowFields(unit)[1], Latitude |-> RowFields(unit)[2],
     Longitude |-> RowFields(unit)[3], Size |-> RowFields(unit)[4],
     image_matched |-> FALSE, match_image_index |-> -1]

\* drop_duplicates(subset=["Unit #"]) keeps the units distinct and the labels
\* of the rows it kept: the first row has label 0, a dropped row leaves a gap
\* of gap labels after it
SubmissionsWithGap(gap) ==
    { [i \in 1..n |-> NewRow(IF i = 1 THEN 0 ELSE i - 1 + gap, u[i], v[i])] :
        <<n, u, v>> \in
            { t \in UNION { {m} \X [1..m -> Units] \X [1..m -> Vendors]
                            : m \in 1..MaxRows } :
                /\ \A a, b \in 1..t[1] : a # b => t[2][a] # t[2][b]
                /\ t[3][1] = "V1" } }

\* glob lists each file of the directory once
FilePools ==
    { f \in SeqsUpTo(FileNames, MaxFiles) :
        \A a, b \in 1..Len(f) : a # b => f[a] # f[b] }

\* self.submissions[col] = value
AssignColumn(sub, col, value) ==
    [i \in DOMAIN sub |->
        [c \in DOMAIN sub[i] \cup {col} |-> IF c = col THEN value ELSE sub[i][c]]]

----------------------------------------------------------------------------
(* Project.process_data, lines 213-222 *)

Init ==
    /\ pc = "match_with_pdf_content"
    /\ unit_number \in UnitNumbers
    /\ submission \in
            IF unit_number = NoneV THEN SubmissionsWithGap(0)
            ELSE SubmissionsWithGap(0) \cup SubmissionsWithGap(1)
    /\ pdf_content \in SeqsUpTo(PageTexts, MaxPages)
    /\ filenames \in FilePools
    /\ scores = <<>>
    /\ vpc = "idle"
    /\ page_images = <<>>
    /\ dups_removed = <<>>
    /\ media_images = [raised |-> FALSE, value |-> <<>>]
    /\ bus_images = [raised |-> FALSE, value |-> <<>>]
    /\ submission_images = [raised |-> FALSE, value |-> <<>>]
    /\ second_run = <<>>

\* line 213
MatchWithPdfContent ==
    /\ pc = "match_with_pdf_content"
    /\ submission' = match_with_pdf_content(submission, pdf_content, unit_number)
    /\ scores' = LoggedScores(submission, pdf_content, unit_number)
    /\ pc' = "assign_match_image_file_index"
    /\ UNCHANGED <<pdf_content, filenames, unit_number, selectVars, visionVars>>

\* line 216
AssignMatchImageFileIndex ==
    /\ pc = "assign_match_image_file_index"
    /\ submission' = AssignColumn(submission, "match_image_file_index", -1)
    /\ pc' = "match_with_image_files"
    /\ UNCHANGED <<pdf_content, filenames, unit_number, scores, selectVars, visionVars>>

\* line 217
MatchWithImageFiles ==
    /\ pc = "match_with_image_files"
    /\ submission' = match_with_image_files(submission, filenames)
    /\ pc' = "match_media_type"
    /\ UNCHANGED <<pdf_content, filenames, unit_number, scores, selectVars, visionVars>>

\* line 220
MatchMediaType ==
    /\ pc = "match_media_type"
    /\ submission' = match_media_type(submission, pdf_content)
    /\ pc' = "assign_bus_media"
    /\ UNCHANGED <<pdf_content, filenames, unit_number, scores, selectVars, visionVars>>

\* line 221
AssignBusMedia ==
    /\ pc = "assign_bus_media"
    /\ submission' = AssignColumn(submission, "bus_media", -1)
    /\ pc' = "match_bus_media"
    /\ UNCHANGED <<pdf_content, filenames, unit_number, scores, selectVars, visionVars>>

\* line 222
MatchBusMedia ==
    /\ pc = "match_bus_media"
    /\ submission' = match_bus_media(submission)
    /\ pc' = "select_images"
    /\ UNCHANGED <<pdf_content, filenames, unit_number, scores, selectVars, visionVars>>

----------------------------------------------------------------------------
(* wilkins/utils/vision.py *)

(* A slot of an image group: None, a bytes object or a list of ints; data is
   the byte string. *)
NoneBlob == [kind |-> "None", data |-> <<>>]
BytesBlob(data) == [kind |-> "bytes", data |-> data]
ListBlob(data) == [kind |-> "list", data |-> data]

\* bytes(image_bytes)
ToBytes(blob) == BytesBlob(blob.data)

RECURSIVE Md5(_)
\* hashlib.md5(image_bytes).hexdigest(): a digest per byte string, taken to
\* be free of collisions
Md5(data) ==
    IF data = <<>> THEN 1 ELSE 256 * Md5(Tail(data)) + Head(data) + 1

\* cv2.imdecode found no image in the buffer
NoImage == [w |-> 0, h |-> 0, decoded |-> FALSE]

\* a decoded image: its shape and what the detectors measure on it
Image(w, h, lines, sky, billboard, variance, grid, bus) ==
    [w |-> w, h |-> h, decoded |-> TRUE,
     vertical_lines |-> lines, horizontal_lines |-> 0, sky_variance |-> sky,
     billboard |-> billboard, variance |-> variance,
     grid_like_structures |-> grid, blue_area |-> 600, green_area |-> 600,
     bus |-> bus]

\* cv2.imdecode(np.frombuffer(image_bytes, np.uint8), cv2.IMREAD_COLOR) on the
\* byte strings of the model
imdecode(data) ==
    CASE data = <<1>> -> Image(400, 400, 6, 100, FALSE, 2000, 0, TRUE)
      [] data = <<2>> -> Image(400, 400, 5, 100, FALSE, 1000, 0, FALSE)
      [] data = <<3>> -> Image(500, 300, 0, 100, TRUE, 1200, 0, TRUE)
      [] data = <<4>> -> Image(299, 400, 6, 100, TRUE, 2000, 0, TRUE)
      [] data = <<6>> -> Image(400, 400, 0, 100, FALSE, 1000, 6, TRUE)
      [] OTHER -> NoImage

is_urban_scene(image) ==
    LET is_sky == image.sky_variance < 300
        has_structures == image.vertical_lines > 5 \/ image.horizontal_lines > 5
    IN  is_sky /\ has_structures

\* the contour loop of is_billboard found a textured quadrilateral
is_billboard(image) == image.billboard

is_map(image) == image.variance < 1200

is_google_map(image) ==
    /\ image.grid_like_structures > 5
    /\ image.blue_area > 500
    /\ image.green_area > 500

\* the contour loop of is_bus found a bus-shaped contour
is_bus(image) == image.bus

score_image_bus(image) ==
    (IF is_bus(image) THEN 1 ELSE 0)
    + (IF ~is_google_map(image) THEN 1 ELSE 0)

score_image(image) ==
    (IF is_urban_scene(image) THEN 1 ELSE 0)
    + (IF is_billboard(image) THEN 1 ELSE 0)
    + (IF ~is_map(image) THEN 1 ELSE 0)
    + (IF ~is_google_map(image) THEN 1 ELSE 0)

\* the slots of a pool: <<group, position>>
Slots(pool) == UNION { {g} \X (1..Len(pool[g])) : g \in 1..Len(pool) }

\* image_hash_counts after the first pass
image_hash_counts(pool, img_hash) ==
    Cardinality({p \in Slots(pool) :
        /\ pool[p[1]][p[2]] # NoneBlob
        /\ Md5(ToBytes(pool[p[1]][p[2]]).data) = img_hash})

\* mutant: the first occurrence of a repeated image is kept
remove_later_duplicates(pool) ==
    [g \in 1..Len(pool) |->
        [i \in 1..Len(pool[g]) |->
            IF pool[g][i] = NoneBlob THEN NoneBlob
            ELSE IF \E p \in Slots(pool) :
                        /\ p[1] < g \/ (p[1] = g /\ p[2] < i)
                        /\ pool[p[1]][p[2]] # NoneBlob
                        /\ Md5(ToBytes(pool[p[1]][p[2]]).data)
                                = Md5(ToBytes(pool[g][i]).data)
                 THEN NoneBlob
                 ELSE ToBytes(pool[g][i])]]

\* mutant: the last occurrence of a repeated image is kept
remove_earlier_duplicates(pool) ==
    [g \in 1..Len(pool) |->
        [i \in 1..Len(pool[g]) |->
            IF pool[g][i] = NoneBlob THEN NoneBlob
            ELSE IF \E p \in Slots(pool) :
                        /\ p[1] > g \/ (p[1] = g /\ p[2] > i)
                        /\ pool[p[1]][p[2]] # NoneBlob
                        /\ Md5(ToBytes(pool[p[1]][p[2]]).data)
                                = Md5(ToBytes(pool[g][i]).data)
                 THEN NoneBlob
                 ELSE ToBytes(pool[g][i])]]

\* remove_all_duplicates: the second pass
remove_all_duplicates(pool) ==
    [g \in 1..Len(pool) |->
        [i \in 1..Len(pool[g]) |->
            IF pool[g][i] = NoneBlob THEN NoneBlob
            ELSE IF image_hash_counts(pool, Md5(ToBytes(pool[g][i]).data)) > 1
                 THEN NoneBlob
                 ELSE ToBytes(pool[g][i])]]

image_dimension_threshold == 300

\* mutant: >= in place of > on line 151
BeatsHighestOrEqual(score, highest_score) == score >= highest_score

\* line 151
BeatsHighest(score, highest_score) == score > highest_score

RECURSIVE ScanGroup(_, _, _, _)
\* the inner loop of filter_media from position k on: the best image, or that
\* image.shape raised on the None imdecode returned
ScanGroup(image_list, k, highest_score, best_image) ==
    IF k > Len(image_list)
    THEN [raised |-> FALSE, best_image |-> best_image]
    ELSE IF image_list[k] = NoneBlob
    THEN ScanGroup(image_list, k + 1, highest_score, best_image)
    ELSE LET image == imdecode(image_list[k].data)
         IN  IF ~image.decoded
             THEN [raised |-> TRUE, best_image |-> best_image]
             ELSE IF \/ image.w < image_dimension_threshold
                     \/ image.h < image_dimension_threshold
             THEN ScanGroup(image_list, k + 1, highest_score, best_image)
             ELSE IF BeatsHighest(score_image(image), highest_score)
             THEN ScanGroup(image_list, k + 1, score_image(image), image)
             ELSE ScanGroup(image_list, k + 1, highest_score, best_image)

\* Image.fromarray(cv2.cvtColor(best_image, cv2.COLOR_BGR2RGB))
PilImage(image) == [mode |-> "RGB", of |-> image]

\* the None appended for a group without a best image
NoPil == [mode |-> "None", of |-> NoImage]

\* filter_media after line 128: the list it returns, unless a group raised
FilterGroups(dups) ==
    LET scan == [g \in 1..Len(dups) |-> ScanGroup(dups[g], 1, -1, NoImage)]
    IN  IF \E g \in 1..Len(dups) : scan[g].raised
        THEN [raised |-> TRUE, value |-> <<>>]
        ELSE [raised |-> FALSE,
              value |-> [g \in 1..Len(dups) |->
                            IF scan[g].best_image.decoded
                            THEN PilImage(scan[g].best_image)
                            ELSE NoPil]]

filter_media(pdf_images) == FilterGroups(remove_all_duplicates(pdf_images))

RECURSIVE ScanGroupBus(_, _, _, _)
\* the inner loop of filter_media_bus from position k on
ScanGroupBus(image_list, k, highest_score, best_image) ==
    IF k > Len(image_list)
    THEN [raised |-> FALSE, best_image |-> best_image]
    ELSE IF image_list[k] = NoneBlob
    THEN ScanGroupBus(image_list, k + 1, highest_score, best_image)
    ELSE LET image == imdecode(image_list[k].data)
         IN  IF ~image.decoded
             THEN [raised |-> TRUE, best_image |-> best_image]
             ELSE IF \/ image.w < image_dimension_threshold
                     \/ image.h < image_dimension_threshold
             THEN ScanGroupBus(image_list, k + 1, highest_score, best_image)
             ELSE IF score_image_bus(image) > highest_score
             THEN ScanGroupBus(image_list, k + 1, score_image_bus(image), image)
             ELSE ScanGroupBus(image_list, k + 1, highest_score, best_image)

RECURSIVE AppendBest(_, _)
\* lines 275-278 over the groups from g on: a best image is appended, a group
\* without one adds nothing
AppendBest(scan, g) ==
    IF g > Len(scan) THEN <<>>
    ELSE (IF scan[g].best_image.decoded
          THEN <<PilImage(scan[g].best_image)>> ELSE <<>>)
         \o AppendBest(scan, g + 1)

\* filter_media_bus after line 248
FilterGroupsBus(dups) ==
    LET scan == [g \in 1..Len(dups) |-> ScanGroupBus(dups[g], 1, 1, NoImage)]
    IN  IF \E g \in 1..Len(dups) : scan[g].raised
        THEN [raised |-> TRUE, value |-> <<>>]
        ELSE [raised |-> FALSE, value |-> AppendBest(scan, 1)]

filter_media_bus(pdf_images) == FilterGroupsBus(remove_all_duplicates(pdf_images))

----------------------------------------------------------------------------
(* The image pools, and the run of filter_media on one *)

BlobChoices ==
    { NoneBlob, BytesBlob(<<1>>), BytesBlob(<<2>>), BytesBlob(<<3>>),
      BytesBlob(<<4>>), BytesBlob(<<5>>), BytesBlob(<<6>>), ListBlob(<<1>>) }

RECURSIVE SumTo(_, _)
\* lens[1] + ... + lens[g]
SumTo(lens, g) == IF g = 0 THEN 0 ELSE lens[g] + SumTo(lens, g - 1)

\* the group lengths of the pools: at most MaxGroups groups holding at most
\* MaxSlots slots between them
GroupLengths ==
    {lens \in SeqsUpTo(0..MaxSlots, MaxGroups) : SumTo(lens, Len(lens)) <= MaxSlots}

\* the pool of these group lengths whose slots, read in order, are flat
Regroup(lens, flat) ==
    [g \in 1..Len(lens) |->
        [i \in 1..lens[g] |-> flat[SumTo(lens, g - 1) + i]]]

InitVision ==
    /\ vpc = "filter_media"
    /\ \E lens \in GroupLengths :
        \E flat \in [1..SumTo(lens, Len(lens)) -> BlobChoices] :
            page_images = Regroup(lens, flat)
    /\ dups_removed = <<>>
    /\ media_images = [raised |-> FALSE, value |-> <<>>]
    /\ bus_images = [raised |-> FALSE, value |-> <<>>]
    /\ submission_images = [raised |-> FALSE, value |-> <<>>]
    /\ second_run = <<>>
    /\ pc = "idle"
    /\ submission = <<>>
    /\ pdf_content = <<>>
    /\ filenames = <<>>
    /\ unit_number = NoneV
    /\ scores = <<>>

\* project.py line 189
FilterMedia ==
    /\ vpc = "filter_media"
    /\ dups_removed' = remove_all_duplicates(page_images)
    /\ media_images' = filter_media(page_images)
    /\ vpc' = "filter_media_bus"
    /\ UNCHANGED <<page_images, bus_images, tierVars>>

\* project.py line 190, applied to every pool
FilterMediaBus ==
    /\ vpc = "filter_media_bus"
    /\ bus_images' = filter_media_bus(page_images)
    /\ vpc' = "done"
    /\ UNCHANGED <<page_images, dups_removed, media_images, tierVars>>

NextVision == FilterMedia \/ FilterMediaBus

SpecVision == InitVision /\ [][NextVision]_vars

----------------------------------------------------------------------------
(* Project.process_data, lines 223-234: the selection loop *)

\* image_data["images"][k]: the decoded image of the k-th file
FileImage(filename) == [mode |-> "RGB", of |-> [file |-> filename]]

image_data_images(files) == [k \in 1..Len(files) |-> FileImage(files[k])]

\* the image on page g of the page pools tried below
PageBlob(g) ==
    CASE g = 1 -> BytesBlob(<<1>>)
      [] g = 2 -> BytesBlob(<<3>>)
      [] OTHER -> BytesBlob(<<2>>)

\* pdf_data["images"] for n pages: one image on every page, or none on any
PagePools(n) == { [g \in 1..n |-> <<PageBlob(g)>>], [g \in 1..n |-> <<>>] }

\* lines 189-190 on each of them, by number of pages
ReducedPools ==
    [n \in 0..MaxPages |->
        { [images |-> pool, media_images |-> filter_media(pool),
           bus_images |-> filter_media_bus(pool)] : pool \in PagePools(n) }]

\* mutant: the filename match is looked at before the page match
SelectRowFileFirst(row, media, images, bus, pick) ==
    IF row.match_image_file_index # -1
    THEN [raised |-> FALSE, entry |-> images[row.match_image_file_index + 1]]
    ELSE IF row.match_image_index # -1
    THEN IF row.match_image_index < Len(media)
         THEN [raised |-> FALSE, entry |-> media[row.match_image_index + 1]]
         ELSE [raised |-> TRUE, entry |-> NoPil]
    ELSE IF row.bus_media # -1
    THEN IF Len(bus) = 0
         THEN [raised |-> TRUE, entry |-> NoPil]
         ELSE [raised |-> FALSE, entry |-> bus[pick]]
    ELSE [raised |-> FALSE, entry |-> NoPil]

\* lines 225-234 for one row: the entry appended, or that the list lookup or
\* random.choice raised IndexError; pick is the position random.choice draws
SelectRow(row, media, images, bus, pick) ==
    IF row.match_image_index # -1
    THEN IF row.match_image_index < Len(media)
         THEN [raised |-> FALSE, entry |-> media[row.match_image_index + 1]]
         ELSE [raised |-> TRUE, entry |-> NoPil]
    ELSE IF row.match_image_file_index # -1
    THEN IF row.match_image_file_index < Len(images)
         THEN [raised |-> FALSE, entry |-> images[row.match_image_file_index + 1]]
         ELSE [raised |-> TRUE, entry |-> NoPil]
    ELSE IF row.bus_media # -1
    THEN IF Len(bus) = 0
         THEN [raised |-> TRUE, entry |-> NoPil]
         ELSE [raised |-> FALSE, entry |-> bus[pick]]
    ELSE [raised |-> FALSE, entry |-> NoPil]

RECURSIVE SelectLoop(_, _, _, _, _, _)
\* the loop of line 224 from row i on
SelectLoop(sub, i, media, images, bus, picks) ==
    IF i > Len(sub) THEN [raised |-> FALSE, value |-> <<>>]
    ELSE LET this == SelectRow(sub[i], media, images, bus, picks[i])
             rest == SelectLoop(sub, i + 1, media, images, bus, picks)
         IN  IF this.raised \/ rest.raised
             THEN [raised |-> TRUE, value |-> <<>>]
             ELSE [raised |-> FALSE, value |-> <<this.entry>> \o rest.value]

(* Lines 189-190 fix media_images and bus_images before the tier calls, which
   read neither; the page images are drawn here, where the pools are first
   read. *)
SelectImages ==
    /\ pc = "select_images"
    /\ \E reduced \in ReducedPools[Len(pdf_content)] :
        /\ page_images' = reduced.images
        /\ media_images' = reduced.media_images
        /\ bus_images' = reduced.bus_images
        /\ \E picks \in [DOMAIN submission ->
                            1..Max({1, Len(reduced.bus_images.value)})] :
            /\ \A i \in DOMAIN submission :
                    submission[i].bus_media = -1 => picks[i] = 1
            /\ submission_images' =
                    SelectLoop(submission, 1, reduced.media_images.value,
                               image_data_images(filenames),
                               reduced.bus_images.value, picks)
    /\ pc' = "clean_up"
    /\ UNCHANGED <<submission, pdf_content, filenames, unit_number, scores,
                   second_run, vpc, dups_removed>>

\* lines 213, 217, 220 and 222 once more, on the same pools: the row set
\* after each call
TierSequence(sub, pages, un, files) ==
    LET first == match_with_pdf_content(sub, pages, un)
        second == match_with_image_files(first, files)
        third == match_media_type(second, pages)
        fourth == match_bus_media(third)
    IN  <<first, second, third, fourth>>

\* a second run of the four tier calls over a row set the first run left
\* with every row matched
RunTiersAgain ==
    /\ pc = "select_images"
    /\ \A i \in DOMAIN submission : submission[i].image_matched
    /\ second_run' = TierSequence(submission, pdf_content, unit_number, filenames)
    /\ submission' = second_run'[4]
    /\ pc' = "tiers_run_again"
    /\ UNCHANGED <<pdf_content, filenames, unit_number, scores,
                   submission_images, visionVars>>

Next ==
    \/ MatchWithPdfContent
    \/ AssignMatchImageFileIndex
    \/ MatchWithImageFiles
    \/ MatchMediaType
    \/ AssignBusMedia
    \/ MatchBusMedia
    \/ SelectImages
    \/ RunTiersAgain

Spec == Init /\ [][Next]_vars

----------------------------------------------------------------------------
(* match_with_pdf_content on rows with missing and empty cells *)

\* a cell that is missing (NaN), empty, or filled
UnitCells == {NaN, StrV(<<>>), StrV(<<"5", " ", "(", "N", "o", "r", "t", "h", ")">>)}
LatitudeCells == {NaN, StrV(<<>>), FloatV(40, 1)}
LongitudeCells == {NaN, StrV(<<>>), StrV(<<"-", "7">>)}
SizeCells == {NaN, StrV(<<>>), StrV(<<"9", "x", "3">>)}

\* page texts: a page without text, a page of an advertiser, a page with a
\* unit and a latitude
SparsePageTexts ==
    { <<>>,
      <<"B", "a", "n", "a", "n", "a">>,
      <<"5", " ", "4", "0", ".", "1">> }

\* one row, as _process_vendor_submissions leaves it
SparseRow(unit, latitude, longitude, size) ==
    [index |-> 0, Unit |-> unit, Vendor |-> "V1",
     MediaType |-> StrV(<<"P", "o", "s", "t", "e", "r">>),
     Latitude |-> latitude, Longitude |-> longitude, Size |-> size,
     image_matched |-> FALSE, match_image_index |-> -1]

InitSparseRows ==
    /\ pc = "match_with_pdf_content"
    /\ unit_number = NoneV
    /\ \E unit \in UnitCells, latitude \in LatitudeCells,
          longitude \in LongitudeCells, size \in SizeCells :
            submission = <<SparseRow(unit, latitude, longitude, size)>>
    /\ pdf_content \in SeqsUpTo(SparsePageTexts, MaxPages)
    /\ filenames = <<>>
    /\ scores = <<>>
    /\ vpc = "idle"
    /\ page_images = <<>>
    /\ dups_removed = <<>>
    /\ media_images = [raised |-> FALSE, value |-> <<>>]
    /\ bus_images = [raised |-> FALSE, value |-> <<>>]
    /\ submission_images = [raised |-> FALSE, value |-> <<>>]
    /\ second_run = <<>>

SpecSparseRows == InitSparseRows /\ [][MatchWithPdfContent]_vars

----------------------------------------------------------------------------
(* match_media_type and match_bus_media on a batch that lacks a column *)

\* dataframe.columns: a batch has at least one row, and every row has the
\* columns of the batch
Columns(sub) == DOMAIN sub[1]

\* the test of check_all_values_same_for_each_category, lines 13-16
ColumnsFound(sub, category_column, target_column) ==
    category_column \in Columns(sub) /\ target_column \in Columns(sub)

\* mutant: the missing column is filled in before the error is raised
RaiseAfterAssigning(sub) ==
    [raised |-> TRUE, value |-> AssignColumn(sub, "image_matched", FALSE)]

\* raise ValueError("Specified column not found in DataFrame."), line 17: the
\* DataFrame is as the caller passed it
RaiseValueError(sub) == [raised |-> TRUE, value |-> sub]

\* match_media_type(submission, pdf_content), with the error of its first call
MatchMediaTypeCall(sub, pages) ==
    IF ~ColumnsFound(sub, "Vendor", "image_matched")
    THEN RaiseValueError(sub)
    ELSE [raised |-> FALSE, value |-> match_media_type(sub, pages)]

\* match_bus_media(submission), with the error of its first call
MatchBusMediaCall(sub) ==
    IF ~ColumnsFound(sub, "Vendor", "image_matched")
    THEN RaiseValueError(sub)
    ELSE [raised |-> FALSE, value |-> match_bus_media(sub)]

\* del dataframe[col] for every col of cols
DropColumns(sub, cols) ==
    [i \in DOMAIN sub |-> [c \in DOMAIN sub[i] \ cols |-> sub[i][c]]]

\* the rows of matched are matched to the first page
MarkMatched(sub, matched) ==
    [i \in DOMAIN sub |->
        IF i \in matched
        THEN [sub[i] EXCEPT !.image_matched = TRUE, !.match_image_index = 0]
        ELSE sub[i]]

\* batches a caller can pass: rows with their match columns, some of them
\* matched, and possibly without the Vendor or the image_matched column
BatchesLackingColumns ==
    { DropColumns(
          MarkMatched(
              AssignColumn(AssignColumn(sub, "match_image_file_index", -1),
                           "bus_media", -1),
              matched),
          cols) :
        <<sub, matched, cols>> \in
            { t \in SubmissionsWithGap(0) \X (SUBSET (1..MaxRows))
                        \X (SUBSET {"Vendor", "image_matched"}) :
                t[2] \subseteq DOMAIN t[1] } }

InitColumns ==
    /\ pc \in {"match_media_type", "match_bus_media"}
    /\ unit_number = NoneV
    /\ submission \in BatchesLackingColumns
    /\ pdf_content \in SeqsUpTo(PageTexts, MaxPages)
    /\ filenames = <<>>
    /\ scores = <<>>
    /\ vpc = "idle"
    /\ page_images = <<>>
    /\ dups_removed = <<>>
    /\ media_images = [raised |-> FALSE, value |-> <<>>]
    /\ bus_images = [raised |-> FALSE, value |-> <<>>]
    /\ submission_images = [raised |-> FALSE, value |-> <<>>]
    /\ second_run = <<>>

MatchMediaTypeOnBatch ==
    /\ pc = "match_media_type"
    /\ LET result == MatchMediaTypeCall(submission, pdf_content)
       IN  /\ submission' = result.value
           /\ pc' = IF result.raised THEN "ValueError" ELSE "returned"
    /\ UNCHANGED <<pdf_content, filenames, unit_number, scores, selectVars, visionVars>>

MatchBusMediaOnBatch ==
    /\ pc = "match_bus_media"
    /\ LET result == MatchBusMediaCall(submission)
       IN  /\ submission' = result.value
           /\ pc' = IF result.raised THEN "ValueError" ELSE "returned"
    /\ UNCHANGED <<pdf_content, filenames, unit_number, scores, selectVars, visionVars>>

NextColumns == MatchMediaTypeOnBatch \/ MatchBusMediaOnBatch

SpecColumns == InitColumns /\ [][NextColumns]_vars

----------------------------------------------------------------------------
(* Project.process_data, lines 187-203: the pools of a submission with an
   epitch link and no barrett link *)

\* what requests.get and Image.open make of one image URL: the bytes of the
\* image, or None when the request or the decoding fails
UrlOutcomes == {NoneBlob, BytesBlob(<<1>>)}

\* load_images_from_urls on one list of URLs, each given by its outcome
LoadGroup(urls) == IF Len(urls) = 0 THEN <<NoneBlob>> ELSE urls

load_images_from_urls(url_lists) ==
    [t \in 1..Len(url_lists) |-> LoadGroup(url_lists[t])]

\* table_text of one table: the texts of its cells
TableText == [cells |-> << <<"A", "1">>, <<"P", "o", "s", "t", "e", "r", "s">> >>]

\* extract_epitch_content_and_images: a text entry and an image group per
\* table
EpitchData ==
    { [content |-> [t \in 1..Len(url_lists) |-> TableText],
       images |-> load_images_from_urls(url_lists)] :
        url_lists \in SeqsUpTo(SeqsUpTo(UrlOutcomes, MaxUrls), MaxTables) }

\* an entry of an image group as an element of media_images: None is the
\* None filter_media appends, bytes stay bytes
AsEntry(blob) == IF blob = NoneBlob THEN NoPil ELSE blob

RECURSIVE ExtendWithGroups(_, _, _)
\* for group in epitch_data["images"]: media_images.extend(group)
ExtendWithGroups(media, groups, g) ==
    IF g > Len(groups) THEN media
    ELSE ExtendWithGroups(
             media \o [k \in 1..Len(groups[g]) |-> AsEntry(groups[g][k])],
             groups, g + 1)

\* the pools after lines 187-190; every page of the PDF has the same text
InitPools ==
    /\ vpc = "extend_epitch"
    /\ pdf_content \in SeqsUpTo({<<"5", " ", "4", "0", ".", "1">>}, MaxPages)
    /\ \E reduced \in ReducedPools[Len(pdf_content)] :
        /\ page_images = reduced.images
        /\ media_images = reduced.media_images
        /\ bus_images = reduced.bus_images
    /\ dups_removed = <<>>
    /\ submission_images = [raised |-> FALSE, value |-> <<>>]
    /\ second_run = <<>>
    /\ pc = "idle"
    /\ submission = <<>>
    /\ filenames = <<>>
    /\ unit_number = NoneV
    /\ scores = <<>>

\* lines 196-203, for one epitch link
ExtendEpitch ==
    /\ vpc = "extend_epitch"
    /\ \E epitch_data \in EpitchData :
        /\ pdf_content' = pdf_content \o epitch_data.content
        /\ page_images' = page_images \o epitch_data.images
        /\ media_images' =
                [media_images EXCEPT
                    !.value = ExtendWithGroups(@, epitch_data.images, 1)]
    /\ vpc' = "match_with_pdf_content"
    /\ UNCHANGED <<pc, submission, filenames, unit_number, scores, selectVars,
                   dups_removed, bus_images>>

SpecPools == InitPools /\ [][ExtendEpitch]_vars

----------------------------------------------------------------------------
(* Vocabulary of the properties *)

MatchColumns ==
    {"image_matched", "match_image_index", "match_image_file_index", "bus_media"}

\* the match-state fields a row has
MatchState(row) == [c \in DOMAIN row \cap MatchColumns |-> row[c]]

TierCalls ==
    {"match_with_pdf_content", "match_with_image_files", "match_media_type",
     "match_bus_media"}

\* text without its parentheticals: position j goes when it lies between a "("
\* and the first ")" after it, both included
InBrackets(text, j) ==
    \E a \in 1..j : \E b \in j..Len(text) :
        /\ a < b
        /\ text[a] = "("
        /\ text[b] = ")"
        /\ \A m \in (a + 1)..(b - 1) : text[m] \notin {")", "\n"}

WithoutBrackets(text) ==
    LET kept == {j \in 1..Len(text) : ~InBrackets(text, j)}
        nth(k) == CHOOSE p \in kept : Cardinality({q \in kept : q <= p}) = k
    IN  [k \in 1..Cardinality(kept) |-> text[nth(k)]]

Trimmed(text) ==
    IF \A j \in 1..Len(text) : text[j] \in Whitespace THEN <<>>
    ELSE LET first == Min({j \in 1..Len(text) : text[j] \notin Whitespace})
             last == Max({j \in 1..Len(text) : text[j] \notin Whitespace})
         IN  [k \in 1..(last - first + 1) |-> text[first + k - 1]]

\* the four strings the Tier-2 score counts
EvidenceStrings(row) ==
    <<Trimmed(WithoutBrackets(Str(row.Unit))), Str(row.Latitude),
      Str(row.Longitude), Str(row.Size)>>

\* how many of them a page holds
EvidenceCount(row, page) ==
    Cardinality({c \in 1..4 : Contains(page, EvidenceStrings(row)[c])})

PageCounts(row) ==
    [k \in 1..Len(pdf_content) |-> EvidenceCount(row, pdf_content[k])]

\* case-insensitive "bus"
MentionsBus(row) == Contains(Lower(Str(row.MediaType)), <<"b", "u", "s">>)

Group(vendor) == {i \in DOMAIN submission : submission[i].Vendor = vendor}

AllUnmatched(vendor) == \A i \in Group(vendor) : ~submission[i].image_matched

----------------------------------------------------------------------------
(* C1: after the four tier calls of process_data, no row has both
   match_image_index >= 0 and match_image_file_index >= 0. *)
C1_AtMostOneIndex ==
    pc = "select_images" =>
        \A i \in DOMAIN submission :
            ~(submission[i].match_image_index >= 0
              /\ submission[i].match_image_file_index >= 0)

\* the step condition of C2
C2_TierCallsSkipResolvedRows_Step ==
    pc \in TierCalls =>
        \A i \in DOMAIN submission :
            submission[i].image_matched =>
                MatchState(submission'[i]) = MatchState(submission[i])

(* C2: a tier call changes no match-state field of a row whose image_matched
   was already true when the call began. *)
C2_TierCallsSkipResolvedRows == [][C2_TierCallsSkipResolvedRows_Step]_vars

(* C3: when match_with_pdf_content returns, the Tier-2 score it logged for a
   row and a page is the number of the four
   strings (unit number without its parentheticals and trimmed, latitude,
   longitude, size) that are substrings of the page text, case-sensitively;
   it lies in 0..4. *)
C3_Tier2Score ==
    pc = "assign_match_image_file_index" =>
        \A i \in DOMAIN submission :
            scores[i].logged =>
                /\ Len(scores[i].values) = Len(pdf_content)
                /\ \A k \in 1..Len(pdf_content) :
                    /\ scores[i].values[k] = EvidenceCount(submission[i], pdf_content[k])
                    /\ scores[i].values[k] \in 0..4

\* the spec's example: "5 (North)" and 40.1 against a page holding only "5"
\* and "40.1" scores 2, and a page holding neither scores 0
C3_Witness ==
    /\ pc = "assign_match_image_file_index"
    /\ \E i \in DOMAIN submission :
        /\ submission[i].Unit = StrV(<<"5", " ", "(", "N", "o", "r", "t", "h", ")">>)
        /\ submission[i].Latitude = FloatV(40, 1)
        /\ scores[i].logged
        /\ \E k, m \in 1..Len(pdf_content) :
            /\ pdf_content[k] = <<"5", " ", "4", "0", ".", "1">>
            /\ scores[i].values[k] = 2
            /\ scores[i].values[m] = 0

\* the step condition of C4
C4_Tier2Selection_Step ==
    pc = "match_with_pdf_content" =>
        \A i \in DOMAIN submission :
            scores'[i].logged =>
                LET sc == PageCounts(submission[i])
                    best == {k \in 1..Len(sc) : \A m \in 1..Len(sc) : sc[m] <= sc[k]}
                IN  IF \E k \in 1..Len(sc) : sc[k] > 0
                    THEN /\ submission'[i].image_matched
                         /\ submission'[i].match_image_index = Min(best) - 1
                    ELSE /\ submission'[i].image_matched = submission[i].image_matched
                         /\ submission'[i].match_image_index
                                = submission[i].match_image_index

(* C4: match_with_pdf_content marks a row it scores as matched, with
   match_image_index the lowest page index of the maximum score, exactly when
   that maximum is above 0; otherwise (all scores 0, or no page) it leaves
   image_matched and match_image_index as they were. *)
C4_Tier2Selection == [][C4_Tier2Selection_Step]_vars

\* a row matched to page 1 (index 1) rather than page 0, a row whose maximum
\* is shared by two pages, and a row left unmatched, after Tier 2
C4_Witness ==
    /\ pc = "assign_match_image_file_index"
    /\ \E i \in DOMAIN submission :
        /\ scores[i].logged
        /\ Len(pdf_content) = 2
        /\ PageCounts(submission[i])[1] = PageCounts(submission[i])[2]
        /\ PageCounts(submission[i])[1] > 0
        /\ submission[i].match_image_index = 0
    /\ \E i \in DOMAIN submission :
        /\ scores[i].logged
        /\ ~submission[i].image_matched

\* the step condition of C5
C5_MatchedVendorSkipped_Step ==
    pc = "match_media_type" =>
        \A i \in DOMAIN submission :
            ~AllUnmatched(submission[i].Vendor) => submission'[i] = submission[i]

(* C5: match_media_type changes no field of any row of a vendor that has at
   least one row already matched when the call begins. *)
C5_MatchedVendorSkipped == [][C5_MatchedVendorSkipped_Step]_vars

\* after Tier 4: a vendor with a matched row and a still unmatched row whose
\* media type occurs in a page, next to a vendor Tier 4 did match
C5_Witness ==
    /\ pc = "assign_bus_media"
    /\ \E i, j \in DOMAIN submission :
        /\ submission[i].Vendor = submission[j].Vendor
        /\ submission[i].match_image_file_index >= 0 \/ scores[i].logged
        /\ submission[i].image_matched
        /\ ~submission[j].image_matched
        /\ MediaTypeMatchRow(submission[j], pdf_content).image_matched

\* the step condition of C6
C6_BusVendorUntouched_Step ==
    pc = "match_media_type" =>
        \A i \in DOMAIN submission :
            (/\ AllUnmatched(submission[i].Vendor)
             /\ \E j \in Group(submission[i].Vendor) : MentionsBus(submission[j]))
            => submission'[i] = submission[i]

(* C6: match_media_type leaves every row of an all-unmatched vendor group
   unchanged when any row of the group has a media type containing "bus",
   wherever that row stands in the group. *)
C6_BusVendorUntouched == [][C6_BusVendorUntouched_Step]_vars

\* the step condition of C7
C7_BusFallback_Step ==
    pc = "match_bus_media" =>
        \A i \in DOMAIN submission :
            /\ IF /\ AllUnmatched(submission[i].Vendor)
                  /\ \E j \in Group(submission[i].Vendor) : MentionsBus(submission[j])
               THEN submission'[i].bus_media = 1
               ELSE submission'[i].bus_media = submission[i].bus_media
            /\ submission'[i].image_matched = submission[i].image_matched
            /\ submission'[i].match_image_index = submission[i].match_image_index
            /\ submission'[i].match_image_file_index
                    = submission[i].match_image_file_index

(* C7: match_bus_media sets bus_media = 1 on exactly the rows of the vendors
   whose rows are all unmatched at call entry and one of whose media types
   contains "bus" in any case; it leaves the bus_media of every other row,
   and image_matched and both index fields of every row, as they were. *)
C7_BusFallback == [][C7_BusFallback_Step]_vars

\* after Tier 5: a flagged row whose own media type has no "bus" in it (the
\* flag is the vendor's)
C7_Witness ==
    /\ pc = "select_images"
    /\ \E i \in DOMAIN submission :
        /\ submission[i].bus_media = 1
        /\ ~MentionsBus(submission[i])

\* the byte content of a slot
Content(blob) == blob.data

\* another slot of the pool holds the same bytes
RepeatedInPool(pool, g, i) ==
    \E p \in Slots(pool) :
        /\ p # <<g, i>>
        /\ pool[p[1]][p[2]] # NoneBlob
        /\ Content(pool[p[1]][p[2]]) = Content(pool[g][i])

\* the slots of group g that survive: not None, not repeated anywhere in the
\* pool, decodable, and at least 300 pixels wide and high
Survivors(pool, g) ==
    {i \in 1..Len(pool[g]) :
        /\ pool[g][i] # NoneBlob
        /\ ~RepeatedInPool(pool, g, i)
        /\ imdecode(Content(pool[g][i])).decoded
        /\ imdecode(Content(pool[g][i])).w >= 300
        /\ imdecode(Content(pool[g][i])).h >= 300}

SurvivorScore(pool, g, i) == score_image(imdecode(Content(pool[g][i])))

(* C8: remove_all_duplicates keeps the shape of the pool; a slot of its
   result is None exactly when the input slot was None or another slot
   anywhere in the pool holds the same bytes, and every other slot holds the
   bytes it held. *)
C8_AllDuplicatesRemoved ==
    vpc = "filter_media_bus" =>
        /\ Len(dups_removed) = Len(page_images)
        /\ \A g \in 1..Len(page_images) :
            /\ Len(dups_removed[g]) = Len(page_images[g])
            /\ \A i \in 1..Len(page_images[g]) :
                IF page_images[g][i] = NoneBlob \/ RepeatedInPool(page_images, g, i)
                THEN dups_removed[g][i] = NoneBlob
                ELSE /\ dups_removed[g][i] # NoneBlob
                     /\ Content(dups_removed[g][i]) = Content(page_images[g][i])

\* the spec's example: [[A, B], [A]] gives [[None, B], [None]]
C8_Witness ==
    /\ vpc = "filter_media_bus"
    /\ page_images = << <<BytesBlob(<<1>>), BytesBlob(<<2>>)>>, <<BytesBlob(<<1>>)>> >>
    /\ dups_removed = << <<NoneBlob, BytesBlob(<<2>>)>>, <<NoneBlob>> >>

(* C9: filter_media returns one slot per input group, in group order, and
   slot g is None exactly when group g has no deduplicated non-null blob that
   decodes to an image at least 300 pixels wide and high. *)
C9_OneSlotPerGroup ==
    vpc = "filter_media_bus" =>
        /\ ~media_images.raised
        /\ Len(media_images.value) = Len(page_images)
        /\ \A g \in 1..Len(page_images) :
            (media_images.value[g] = NoPil) <=> (Survivors(page_images, g) = {})

(* C10: in every group the image filter_media keeps is the survivor (non-null
   after dedup, width and height at least 300) of maximum generic score, the
   first of them in the group when several share the maximum; an image less
   than 300 pixels wide or high is never kept. *)
C10_BestImageKept ==
    (vpc = "filter_media_bus" /\ ~media_images.raised) =>
        \A g \in 1..Len(page_images) :
            LET surv == Survivors(page_images, g)
                top == {i \in surv : \A j \in surv :
                            SurvivorScore(page_images, g, j)
                                <= SurvivorScore(page_images, g, i)}
                kept == media_images.value[g]
            IN  /\ surv # {} =>
                    kept = PilImage(imdecode(Content(page_images[g][Min(top)])))
                /\ kept # NoPil => (kept.of.w >= 300 /\ kept.of.h >= 300)

\* a group where a too-small image outscores the image kept, and the image
\* kept is the first of two survivors with the same score
C10_Witness ==
    /\ vpc = "filter_media_bus"
    /\ ~media_images.raised
    /\ \E g \in 1..Len(page_images) :
        /\ media_images.value[g] # NoPil
        /\ \E i, j \in Survivors(page_images, g) :
            /\ i < j
            /\ SurvivorScore(page_images, g, i) = SurvivorScore(page_images, g, j)
            /\ media_images.value[g] = PilImage(imdecode(Content(page_images[g][i])))
        /\ \E i \in 1..Len(page_images[g]) :
            /\ page_images[g][i] # NoneBlob
            /\ imdecode(Content(page_images[g][i])).decoded
            /\ imdecode(Content(page_images[g][i])).w < 300
            /\ score_image(imdecode(Content(page_images[g][i])))
                    > score_image(media_images.value[g].of)

\* the survivors of group g whose bus score is above the baseline of 1
BusSurvivors(pool, g) ==
    {i \in Survivors(pool, g) :
        score_image_bus(imdecode(Content(pool[g][i]))) > 1}

\* the groups that have one, in group order
BusGroups(pool) ==
    LET qualifying == {g \in 1..Len(pool) : BusSurvivors(pool, g) # {}}
        nth(n) == CHOOSE g \in qualifying :
                        Cardinality({h \in qualifying : h <= g}) = n
    IN  [n \in 1..Cardinality(qualifying) |-> nth(n)]

(* C11: filter_media_bus returns, in group order, one image for each group
   that has a survivor (non-null after dedup, width and height at least 300)
   of bus score above 1, namely the first such survivor of the group, and
   nothing for any other group; its result is no longer than the pool. *)
C11_BusOnePerQualifyingGroup ==
    vpc = "done" =>
        /\ ~bus_images.raised
        /\ Len(bus_images.value) = Len(BusGroups(page_images))
        /\ Len(bus_images.value) <= Len(page_images)
        /\ \A n \in 1..Len(bus_images.value) :
            LET g == BusGroups(page_images)[n]
            IN  bus_images.value[n]
                    = PilImage(imdecode(Content(
                          page_images[g][Min(BusSurvivors(page_images, g))])))

\* the non-null slots dedup leaves in group g that imdecode cannot decode
Undecodable(dups, g) ==
    {i \in 1..Len(dups[g]) :
        dups[g][i] # NoneBlob /\ ~imdecode(Content(dups[g][i])).decoded}

(* C12: neither filter_media nor filter_media_bus raises on a blob that does
   not decode; a group whose surviving blobs all fail to decode gives None in
   filter_media's result. *)
C12_DecodeFailuresSkipped ==
    vpc = "done" =>
        /\ ~media_images.raised
        /\ ~bus_images.raised
        /\ \A g \in 1..Len(dups_removed) :
            (\A i \in 1..Len(dups_removed[g]) :
                dups_removed[g][i] = NoneBlob \/ i \in Undecodable(dups_removed, g))
            => media_images.value[g] = NoPil

(* C13: the selection loop decides each row's image in strict priority
   order: the reduced per-page image at match_image_index when that is not
   -1 (the slot's None included), else the image-file pool entry at
   match_image_file_index when that is not -1, else some member of the
   reduced bus pool when bus_media is set, else None. *)
C13_SelectionPriority ==
    (pc = "clean_up" /\ ~submission_images.raised) =>
        /\ Len(submission_images.value) = Len(submission)
        /\ \A i \in DOMAIN submission :
            LET row == submission[i]
                got == submission_images.value[i]
            IN  IF row.match_image_index # -1
                THEN got = media_images.value[row.match_image_index + 1]
                ELSE IF row.match_image_file_index # -1
                THEN got = FileImage(filenames[row.match_image_file_index + 1])
                ELSE IF row.bus_media # -1
                THEN \E k \in 1..Len(bus_images.value) : got = bus_images.value[k]
                ELSE got = NoPil

\* a row holding both indices got the page image, not the file's; a row
\* matched to a page without a usable image got None
C13_Witness ==
    /\ pc = "clean_up"
    /\ ~submission_images.raised
    /\ \E i \in DOMAIN submission :
        /\ submission[i].match_image_index # -1
        /\ submission[i].match_image_file_index # -1
        /\ submission_images.value[i] # NoPil
        /\ submission_images.value[i]
                # FileImage(filenames[submission[i].match_image_file_index + 1])

(* C14: whatever rows the tier sequence leaves (batch or forced-unit mode)
   and whatever the pools hold, the empty reduced bus pool included, the
   selection loop does not fail and gives one entry per row. *)
C14_SelectionNeverFails ==
    pc = "clean_up" =>
        /\ ~submission_images.raised
        /\ Len(submission_images.value) = Len(submission)

\* the step condition of C15
C15_SecondRunChangesNothing_Step ==
    (pc = "select_images" /\ pc' = "tiers_run_again") =>
        \A n \in 1..4 : \A i \in DOMAIN submission :
            MatchState(second_run'[n][i]) = MatchState(submission[i])

(* C15: when the tier sequence has left every row with image_matched true,
   running the four tier calls again in order on the same page texts and
   filenames changes no match-state field of any row, at any of the four
   calls. *)
C15_SecondRunChangesNothing == [][C15_SecondRunChangesNothing_Step]_vars

\* a second run over two rows, one holding a page index and a file index,
\* the other matched by its filename only
C15_Witness ==
    /\ pc = "tiers_run_again"
    /\ \E i, j \in DOMAIN submission :
        /\ submission[i].match_image_index >= 0
        /\ submission[i].match_image_file_index >= 0
        /\ submission[j].match_image_index = -1
        /\ submission[j].match_image_file_index >= 0

\* row i was matched by match_with_pdf_content: by the unit_number branch, or
\* by a page that scored
MatchedByTier2(i) ==
    /\ pc \notin {"idle", "match_with_pdf_content"}
    /\ \/ unit_number # NoneV /\ CellEq(submission[i].Unit, unit_number)
       \/ scores[i].logged /\ \E k \in 1..Len(scores[i].values) :
                                    scores[i].values[k] > 0

LaterTierSteps ==
    {"assign_match_image_file_index", "match_with_image_files",
     "match_media_type", "assign_bus_media", "match_bus_media"}

\* the step condition of C16
C16_Tier2MatchKept_Step ==
    pc \in LaterTierSteps =>
        \A i \in DOMAIN submission :
            MatchedByTier2(i) =>
                /\ submission[i].image_matched
                /\ submission'[i].image_matched
                /\ submission'[i].match_image_index = submission[i].match_image_index

(* C16: a row match_with_pdf_content has matched keeps image_matched = true
   and its match_image_index through match_with_image_files,
   match_media_type and match_bus_media. *)
C16_Tier2MatchKept == [][C16_Tier2MatchKept_Step]_vars

\* the spec's example: the single row of unit 12 against a page holding "12"
\* ends the tiers with match_image_index 0, though a filename matched it too
C16_Witness ==
    /\ pc = "select_images"
    /\ unit_number = NoneV
    /\ Len(submission) = 1
    /\ submission[1].Unit = IntV(12)
    /\ submission[1].Vendor = "V1"
    /\ Len(pdf_content) >= 1
    /\ pdf_content[1] = <<"1", "2", " ", "P", "o", "s", "t", "e", "r">>
    /\ submission[1].image_matched
    /\ submission[1].match_image_index = 0
    /\ submission[1].match_image_file_index = 0

(* C17: after the full tier sequence no row has bus_media = 1 together with
   image_matched = true; a bus-flagged row has match_image_index = -1 and
   match_image_file_index = -1. *)
C17_BusFlagOnlyOnUnmatched ==
    pc \in {"select_images", "clean_up"} =>
        \A i \in DOMAIN submission :
            submission[i].bus_media = 1 =>
                /\ ~submission[i].image_matched
                /\ submission[i].match_image_index = -1
                /\ submission[i].match_image_file_index = -1

\* a flagged row next to a matched row of another vendor whose media type
\* also mentions a bus and which is not flagged
C17_Witness ==
    /\ pc = "select_images"
    /\ \E i, j \in DOMAIN submission :
        /\ submission[i].bus_media = 1
        /\ submission[j].image_matched
        /\ MentionsBus(submission[j])
        /\ submission[j].bus_media = -1

\* match_image_file_index, -1 while the column is not there yet
FileIndexOf(row) ==
    IF "match_image_file_index" \in DOMAIN row
    THEN row.match_image_file_index ELSE -1

(* C18: in every state before, between and after the tier calls a row has
   image_matched = true exactly when match_image_index >= 0 or
   match_image_file_index >= 0; a row the bus fallback flagged is not thereby
   matched. *)
C18_MatchedIffIndexed ==
    \A i \in DOMAIN submission :
        submission[i].image_matched
            <=> (submission[i].match_image_index >= 0
                 \/ FileIndexOf(submission[i]) >= 0)

\* after the tiers: a row matched by its filename only, and a bus-flagged
\* row that is not matched
C18_Witness ==
    /\ pc = "select_images"
    /\ \E i, j \in DOMAIN submission :
        /\ submission[i].image_matched
        /\ submission[i].match_image_index = -1
        /\ submission[i].match_image_file_index >= 0
        /\ submission[j].bus_media = 1
        /\ ~submission[j].image_matched

\* the positions of the filenames that, trimmed and lowercased, contain the
\* row's trimmed, lowercased unit number or media type
KeyFiles(row) ==
    {k \in 1..Len(filenames) :
        LET name == Lower(Trimmed(filenames[k]))
        IN  \/ Contains(name, Lower(Trimmed(Str(row.Unit))))
            \/ Contains(name, Lower(Trimmed(Str(row.MediaType))))}

\* the step condition of C19
C19_FirstFilenameWins_Step ==
    pc = "match_with_image_files" =>
        \A i \in DOMAIN submission :
            IF KeyFiles(submission[i]) # {}
            THEN /\ submission'[i].match_image_file_index
                        = Min(KeyFiles(submission[i])) - 1
                 /\ submission'[i].image_matched
            ELSE /\ submission'[i].match_image_file_index
                        = submission[i].match_image_file_index
                 /\ submission'[i].image_matched = submission[i].image_matched

(* C19: match_with_image_files gives a row the lowest index of the filenames
   that, trimmed and lowercased, contain the row's trimmed, lowercased unit
   number or media type, and sets image_matched; a row no filename contains
   keeps its match_image_file_index and image_matched. *)
C19_FirstFilenameWins == [][C19_FirstFilenameWins_Step]_vars

\* after Tier 3: a row two filenames contain, the second by its unit number
\* and the first by its media type in another case, holds index 0; another
\* row is contained in none and is as it was
C19_Witness ==
    /\ pc = "match_media_type"
    /\ Len(filenames) = 2
    /\ \E i, j \in DOMAIN submission :
        /\ KeyFiles(submission[i]) = {1, 2}
        /\ submission[i].match_image_file_index = 0
        /\ ~Contains(Lower(filenames[1]), Lower(Str(submission[i].Unit)))
        /\ KeyFiles(submission[j]) = {}
        /\ submission[j].match_image_file_index = -1
        /\ ~submission[j].image_matched

\* the step condition of C20
C20_NoConsumedFilenames_Step ==
    pc = "match_with_image_files" =>
        \A i, j \in DOMAIN submission :
            KeyFiles(submission[i]) = KeyFiles(submission[j]) =>
                submission'[i].match_image_file_index
                    = submission'[j].match_image_file_index

(* C20: the index match_with_image_files gives a row does not depend on the
   other rows: rows whose keys occur in the same filenames get the same
   match_image_file_index, the same first filename included. *)
C20_NoConsumedFilenames == [][C20_NoConsumedFilenames_Step]_vars

\* after Tier 3: two rows hold the same filename index
C20_Witness ==
    /\ pc = "match_media_type"
    /\ \E i, j \in DOMAIN submission :
        /\ i # j
        /\ submission[i].match_image_file_index >= 0
        /\ submission[i].match_image_file_index
                = submission[j].match_image_file_index

\* text without the suffix, when it ends with it
DropSuffix(text, suffix) ==
    IF /\ Len(text) >= Len(suffix)
       /\ SubSeq(text, Len(text) - Len(suffix) + 1, Len(text)) = suffix
    THEN SubSeq(text, 1, Len(text) - Len(suffix))
    ELSE text

\* the pieces of text between its "&" and "@" characters, trimmed
SubTokens(text) ==
    LET cuts == {0, Len(text) + 1}
                    \cup {j \in 1..Len(text) : text[j] \in {"&", "@"}}
    IN  {Trimmed(SubSeq(text, a + 1, b - 1)) :
            <<a, b>> \in {c \in cuts \X cuts :
                            /\ c[1] < c[2]
                            /\ \A m \in cuts : ~(c[1] < m /\ m < c[2])}}

\* the strings looked for in a page for a media type: the lowercased media
\* type and, when it holds "&" or "@", its sub-tokens, each also without a
\* trailing "s" and without a trailing "es"
MediaTypeForms(row) ==
    LET media_type == Lower(Str(row.MediaType))
        tokens == {media_type}
                    \cup (IF \E j \in 1..Len(media_type) :
                                    media_type[j] \in {"&", "@"}
                          THEN SubTokens(media_type) ELSE {})
    IN  UNION { {t, DropSuffix(t, <<"s">>), DropSuffix(t, <<"e", "s">>)}
                : t \in tokens }

MediaTypePages(row) ==
    {k \in 1..Len(pdf_content) :
        \E form \in MediaTypeForms(row) : Contains(Lower(pdf_content[k]), form)}

\* the step condition of C21
C21_Tier4PageMatch_Step ==
    pc = "match_media_type" =>
        \A i \in DOMAIN submission :
            (/\ AllUnmatched(submission[i].Vendor)
             /\ \A j \in Group(submission[i].Vendor) : ~MentionsBus(submission[j]))
            => IF MediaTypePages(submission[i]) # {}
               THEN /\ submission'[i].image_matched
                    /\ submission'[i].match_image_index
                            = Min(MediaTypePages(submission[i])) - 1
               ELSE /\ ~submission'[i].image_matched
                    /\ submission'[i].match_image_index = -1

(* C21: in Tier 4 a row of a vendor group that is processed (all rows
   unmatched, none a bus row) is matched to the lowest page whose lowercased
   text contains the lowercased media type, or it without a trailing "s" or
   "es", or, when it holds "&" or "@", a trimmed sub-token or that without a
   trailing "s" or "es"; it is left unmatched when no page does. *)
C21_Tier4PageMatch == [][C21_Tier4PageMatch_Step]_vars

\* a cell that is missing or empty
Blank(cell) == cell = NaN \/ cell = StrV(<<>>)

KeyCells(row) == <<row.Unit, row.Latitude, row.Longitude, row.Size>>

\* the evidence of the cells that are filled
FilledEvidence(row, page) ==
    Cardinality({c \in 1..4 :
        /\ ~Blank(KeyCells(row)[c])
        /\ Contains(page, EvidenceStrings(row)[c])})

(* C22: a unit number, latitude, longitude or size that is missing or empty
   adds nothing to the Tier-2 score of any page: the score is the evidence of
   the filled cells alone, and a row whose four cells are all missing or
   empty is not matched by Tier 2. *)
C22_BlankCellsScoreZero ==
    pc = "assign_match_image_file_index" =>
        \A i \in DOMAIN submission :
            /\ scores[i].logged =>
                    \A k \in 1..Len(pdf_content) :
                        scores[i].values[k]
                            = FilledEvidence(submission[i], pdf_content[k])
            /\ (\A c \in 1..4 : Blank(KeyCells(submission[i])[c]))
                    => ~submission[i].image_matched

LacksColumn(sub) ==
    "Vendor" \notin Columns(sub) \/ "image_matched" \notin Columns(sub)

\* the step condition of C23
C23_MissingColumnRaises_Step ==
    (pc \in {"match_media_type", "match_bus_media"} /\ LacksColumn(submission))
        => /\ pc' = "ValueError"
           /\ DOMAIN submission' = DOMAIN submission
           /\ \A i \in DOMAIN submission :
                  MatchState(submission'[i]) = MatchState(submission[i])

(* C23: called on a batch without the Vendor column or without the
   image_matched column, match_media_type and match_bus_media raise ValueError
   and every row's match-state fields are what they were before the call. *)
C23_MissingColumnRaises == [][C23_MissingColumnRaises_Step]_vars

C23_Witness ==
    /\ pc = "ValueError"
    /\ "Vendor" \notin Columns(submission)
    /\ "image_matched" \in Columns(submission)
    /\ \E i \in DOMAIN submission : submission[i].image_matched

\* the batch with its rows in another order: position k holds row perm[k]
Reordered(sub, perm) == [k \in DOMAIN sub |-> sub[perm[k]]]

\* the tier at the current position of process_data, run on sub
TierOn(sub) ==
    CASE pc = "match_with_pdf_content" ->
            match_with_pdf_content(sub, pdf_content, unit_number)
      [] pc = "match_with_image_files" -> match_with_image_files(sub, filenames)
      [] pc = "match_media_type" -> match_media_type(sub, pdf_content)
      [] pc = "match_bus_media" -> match_bus_media(sub)

\* the step condition of C24
C24_RowOrderIndependent_Step ==
    pc \in {"match_with_pdf_content", "match_with_image_files",
            "match_media_type", "match_bus_media"}
        => \A perm \in Permutations(DOMAIN submission) :
               TierOn(Reordered(submission, perm)) = Reordered(submission', perm)

(* C24: in each tier every row ends in the same state whatever the order in
   which the rows are processed: running the tier on the rows in any other
   order gives each row the state the tier gives it in the batch's order. *)
C24_RowOrderIndependent == [][C24_RowOrderIndependent_Step]_vars

\* what element i of media_images can be when it comes from the image group
\* of page i: no image, the reduction of an image of the group, or an image
\* of the group as it was scraped
FromGroup(group) ==
    {NoPil}
        \cup {PilImage(imdecode(group[k].data)) :
                 k \in {j \in 1..Len(group) : group[j] # NoneBlob}}
        \cup {group[k] : k \in {j \in 1..Len(group) : group[j] # NoneBlob}}

(* C25: when the tiers start, media_images has one element per page text, and
   element i comes from the image group of page i, also after the texts and
   the image groups of scraped tables with no image, one image or several
   images have been appended. *)
C25_MediaImagesAligned ==
    (vpc = "match_with_pdf_content" /\ ~media_images.raised)
        => /\ Len(media_images.value) = Len(pdf_content)
           /\ \A i \in 1..Min({Len(media_images.value), Len(page_images)}) :
                  media_images.value[i] \in FromGroup(page_images[i])

\* the row set lines 220-222 make of sub: Tier 4, the bus_media column, Tier 5
AfterTiers4And5(sub) ==
    match_bus_media(
        AssignColumn(match_media_type(sub, pdf_content), "bus_media", -1))

(* C26: when Tier 3 has left every row of a vendor unmatched and one of the
   vendor's media types contains "bus" in any case, Tiers 4 and 5 leave every
   row of that vendor with bus_media = 1 and image_matched = FALSE, wherever
   the bus row stands among the vendor's rows. *)
C26_BusVendorFlagged ==
    pc = "match_media_type" =>
        \A i \in DOMAIN submission :
            (/\ AllUnmatched(submission[i].Vendor)
             /\ \E j \in Group(submission[i].Vendor) : MentionsBus(submission[j]))
            => /\ AfterTiers4And5(submission)[i].bus_media = 1
               /\ ~AfterTiers4And5(submission)[i].image_matched

\* the step condition of C27
C27_ForcedUnit_Step ==
    (pc = "match_with_pdf_content" /\ unit_number # NoneV) =>
        \A i \in DOMAIN submission :
            IF CellEq(submission[i].Unit, unit_number)
            THEN /\ submission'[i].image_matched
                 /\ submission'[i].match_image_index = submission[i].index
                 /\ ~scores'[i].logged
            ELSE /\ submission'[i]
                        = match_with_pdf_content(submission, pdf_content, NoneV)[i]
                 /\ scores'[i] = LoggedScores(submission, pdf_content, NoneV)[i]

(* C27: with a forced unit number, match_with_pdf_content leaves every row
   whose unit number equals it with image_matched = TRUE and match_image_index
   = the row's own index in the row set, the scoring pass of the same call
   passes over those rows, and every other row is scored and matched as it is
   without a forced unit number. *)
C27_ForcedUnit == [][C27_ForcedUnit_Step]_vars

\* after a forced call: the forced row carries its own index, 2, where the
\* scoring would have given it a page, and another row was matched by its
\* score
C27_Witness ==
    /\ pc = "assign_match_image_file_index"
    /\ unit_number # NoneV
    /\ \E i, j \in DOMAIN submission :
        /\ CellEq(submission[i].Unit, unit_number)
        /\ submission[i].index = 2
        /\ submission[i].match_image_index = 2
        /\ \E k \in 1..Len(pdf_content) :
                EvidenceCount(submission[i], pdf_content[k]) > 0
        /\ ~CellEq(submission[j].Unit, unit_number)
        /\ scores[j].logged
        /\ submission[j].image_matched

(* C28: after the four tier calls, with or without a forced unit number, every
   row's match_image_index is -1 or an index into the page texts, and every
   row's match_image_file_index is -1 or an index into the filenames. *)
C28_IndicesInRange ==
    pc = "select_images" =>
        \A i \in DOMAIN submission :
            /\ \/ submission[i].match_image_index = -1
               \/ submission[i].match_image_index \in 0..(Len(pdf_content) - 1)
            /\ \/ submission[i].match_image_file_index = -1
               \/ submission[i].match_image_file_index \in 0..(Len(filenames) - 1)

\* the pool with its groups in another order
GroupsPermuted(pool, perm) == [g \in 1..Len(pool) |-> pool[perm[g]]]

\* the pool with the blobs of group g in another order
BlobsPermuted(pool, g, perm) ==
    [h \in 1..Len(pool) |->
        IF h = g THEN [k \in 1..Len(pool[g]) |-> pool[g][perm[k]]] ELSE pool[h]]

(* C29: remove_all_duplicates commutes with every reordering of the pool: on
   the pool with its groups permuted, or with the blobs of a group permuted,
   it returns its result on the pool permuted the same way, so whether a blob
   is replaced by None does not depend on where it stands. *)
C29_DuplicatesOrderFree ==
    vpc = "filter_media_bus" =>
        /\ \A perm \in Permutations(1..Len(page_images)) :
                remove_all_duplicates(GroupsPermuted(page_images, perm))
                    = GroupsPermuted(dups_removed, perm)
        /\ \A g \in 1..Len(page_images) :
                \A perm \in Permutations(1..Len(page_images[g])) :
                    remove_all_duplicates(BlobsPermuted(page_images, g, perm))
                        = BlobsPermuted(dups_removed, g, perm)

\* a pool whose second group holds, in second place, the bytes that stand
\* first in the first group, next to a blob that occurs once: both copies are
\* gone and the single blob is kept
C29_Witness ==
    /\ vpc = "filter_media_bus"
    /\ Len(page_images) = 2
    /\ Len(page_images[1]) = 1
    /\ Len(page_images[2]) = 2
    /\ page_images[1][1] # NoneBlob
    /\ page_images[2][1] # NoneBlob
    /\ page_images[2][2] # NoneBlob
    /\ Content(page_images[2][2]) = Content(page_images[1][1])
    /\ Content(page_images[2][1]) # Content(page_images[1][1])
    /\ dups_removed = <<<<NoneBlob>>, <<ToBytes(page_images[2][1]), NoneBlob>>>>

\* the images filter_media scores: the decoded images of the pool that are
\* at least 300 pixels wide and high
ScoredImages(pool) ==
    {imdecode(pool[p[1]][p[2]].data) :
        p \in {q \in Slots(pool) :
                 /\ pool[q[1]][q[2]] # NoneBlob
                 /\ imdecode(pool[q[1]][q[2]].data).decoded
                 /\ imdecode(pool[q[1]][q[2]].data).w >= image_dimension_threshold
                 /\ imdecode(pool[q[1]][q[2]].data).h >= image_dimension_threshold}}

\* a top band of variance below 300 and 5 or more lines in one orientation
SkyAndFiveLines(image) ==
    /\ image.sky_variance < 300
    /\ image.vertical_lines >= 5 \/ image.horizontal_lines >= 5

(* C30: on every image filter_media scores, is_urban_scene is true exactly
   when the variance of the top band is below 300 and the near-vertical or
   the near-horizontal lines number 5 or more, exactly 5 included, and this
   is worth exactly 1 in score_image. *)
C30_UrbanSceneAtFiveLines ==
    vpc = "filter_media_bus" =>
        \A image \in ScoredImages(page_images) :
            /\ is_urban_scene(image) <=> SkyAndFiveLines(image)
            /\ score_image(image) =
                    (IF SkyAndFiveLines(image) THEN 1 ELSE 0)
                    + (IF is_billboard(image) THEN 1 ELSE 0)
                    + (IF ~is_map(image) THEN 1 ELSE 0)
                    + (IF ~is_google_map(image) THEN 1 ELSE 0)

====
